---- MODULE Spec2Model ----
(***************************************************************************)
(* Model of src/app.py: the publish pipeline setup_and_push_repo, the      *)
(* credential helper it calls, and the local/remote VCS state the git      *)
(* commands it runs act on.                                                *)
(*                                                                         *)
(* Text values (argument-list entries, URLs, configuration values, console *)
(* messages, diagnostics) are sequences of words, so that "x in text" of   *)
(* the source is a membership test that can fail.                          *)
(*                                                                         *)
(* Every state-changing git command takes one environment input, fault:    *)
(* the command exits non-zero for a reason outside the model (lock file,   *)
(* permissions, network).  Read-only queries answer from the state.        *)
(***************************************************************************)
EXTENDS Integers, Sequences, FiniteSets, TLC

\* ------------------------------------------------------------------ bounds
MaxRuns == 2      \* invocations of setup_and_push_repo on the same directory
MaxFaults == 2    \* environment faults injected over one behaviour
MaxProcs == 2     \* runs of the tool (main) on the same directory and name

\* ------------------------------------------------------------------- texts
W(s) == <<s>>
Mentions(text, word) == \E i \in DOMAIN text : text[i] = word
Stderr(cmd) == <<"stderr:", cmd>>
NoText == <<>>

Origin == W("origin")
OtherRemote == <<"my", "origin">>          \* a remote named "myorigin"
repo_url == <<"https://github.com/user/", "demo.git">>
ElsewhereUrl == <<"https://example.com/", "old.git">>
Secret == "ghp_secret"

PlaceholderName == W("GitHub Auto Uploader")
PlaceholderEmail == W("auto-uploader@example.com")
ExistingName == W("Alice")
ExistingEmail == W("alice@example.org")

Branches == {"main", "master", "feature"}
DefaultBranchNames == {"main", "master"}
ScriptFile == "app.py"
abs_directory == <<"/home/u/", "project">>
InsidePath == <<"/home/u/", "project", "/app.py">>
SiblingPath == <<"/home/u/", "project", "-tools/app.py">>
OutsidePath == <<"/opt/tools/", "app.py">>
StageOrder == <<"ensure_root", "ensure_remote", "ensure_identity",
                "inject_credential", "stage_all", "self_exclusion",
                "commit", "branch_selection", "push">>

VARIABLES
  \* --- the local directory and its VCS metadata
  isRepo,        \* the directory is a working tree
  remotes,       \* set of [name, url]
  userName,      \* effective user.name (NoText when unset)
  userEmail,     \* effective user.email
  credHelper,    \* credential.helper of the repository configuration
  credCache,     \* passwords held by the credential cache
  curBranch,     \* branch HEAD points at
  refs,          \* local branch -> sequence of committed trees (<<>>: no such branch)
  index,         \* staged tree
  upstream,      \* local branches with an upstream tracking reference
  remoteRefs,    \* branches of the remote repository at repo_url
  \* --- the environment and the arguments of the call
  defaultBranch, \* branch name git init gives a new repository
  script_path,   \* absolute path of sys.argv[0], an existing file
  branch,        \* argument branch
  token,         \* argument token ("" when none)
  \* --- the invocation
  pc,            \* position in setup_and_push_repo
  runs,          \* invocations started
  cmds,          \* subprocesses spawned in this invocation
  console,       \* messages printed in this invocation
  started,       \* stages started in this invocation
  setup_success, \* result of setup_git_credentials_helper
  failedAt,      \* stage that returned False ("none")
  prevFailedAt,  \* failedAt of the previous invocation
  nfaults,       \* environment faults injected so far
  faultLog,      \* <<invocation, stage>> of every injected fault
  init0,         \* local state when the current invocation started
  remote0,       \* remoteRefs when the current invocation started
  snap3,         \* local state after stage 3 of this invocation, once passed
  prev3,         \* snap3 of the previous invocation
  hostIdent,     \* what git can make up for an unset identity on this host
                 \* (Unasked until a commit needs it)
  \* --- the process (main) and the hosting provider
  mainPc,        \* position in main ("off": setup_and_push_repo is called directly)
  procs,         \* runs of the tool started
  hosted,        \* a repository named repo_name exists at the provider
  requests,      \* HTTP requests sent in this run of the tool
  response,      \* the response to the create-repository request
  repo_data,     \* what create_github_repo returned
  createdHere,   \* the provider created the repository in this run
  exitCode,      \* exit code of the process (-1 while it runs)
  git0,          \* the local VCS state when this run of the tool started
  prevProc       \* outcome of the previous run of the tool

gitVars == <<isRepo, remotes, userName, userEmail, credHelper, credCache,
             curBranch, refs, index, upstream, remoteRefs>>
argVars == <<defaultBranch, script_path, branch, token>>
runVars == <<pc, runs, cmds, console, started, setup_success, failedAt,
             prevFailedAt, nfaults, faultLog, init0, remote0, snap3, prev3>>
mainVars == <<mainPc, procs, hosted, requests, response, repo_data,
              createdHere, exitCode, git0, prevProc>>
envVars == <<hostIdent>>
vars == <<gitVars, argVars, runVars, mainVars, envVars>>

\* ------------------------------------------------------------ git queries
NoRefs == [b \in Branches |-> <<>>]
ScriptUnderDir == script_path = InsidePath
WorkFiles == {"a.txt"} \cup (IF ScriptUnderDir THEN {ScriptFile} ELSE {})
HeadBorn == refs[curBranch] # <<>>
HeadTree == IF HeadBorn THEN refs[curBranch][Len(refs[curBranch])] ELSE {}
HasRemote(name) == \E r \in remotes : r.name = name
OriginUrl == IF HasRemote(Origin)
             THEN (CHOOSE r \in remotes : r.name = Origin).url
             ELSE NoText
IsPrefix(s, t) == Len(s) <= Len(t) /\ \A i \in DOMAIN s : s[i] = t[i]
FaultChoicesAfter(k) == IF nfaults + k < MaxFaults THEN BOOLEAN ELSE {FALSE}
FaultChoices == FaultChoicesAfter(0)
Cost(f) == IF f THEN 1 ELSE 0

\* the words of the output of git remote -v: names and URLs of all remotes
RemoteVOutput(rs) == UNION {{r.name[i] : i \in DOMAIN r.name} \cup
                            {r.url[i] : i \in DOMAIN r.url} : r \in rs}

LocalState == [isRepo |-> isRepo, remotes |-> remotes,
               userName |-> userName, userEmail |-> userEmail]
Logged(fault, stage) == IF fault THEN {<<runs, stage>>} ELSE {}
FaultFree(run, stages) == \A s \in stages : <<run, s>> \notin faultLog

\* ------------------------------------------------------- run_git_command
Cmd(stage, argv, ok) ==
  [stage |-> stage, argv |-> argv, stdin |-> NoText, ok |-> ok]
Git(words) == [i \in 1..(Len(words) + 1) |->
                 IF i = 1 THEN W("git") ELSE words[i - 1]]

\* ------------------------------------------------------------------- Init
repo_name == "demo"
NoResponse == [status |-> 0, body |-> "none"]
NoSnapshot == [valid |-> FALSE]
Unasked == [asked |-> FALSE, name |-> FALSE, email |-> FALSE]
NoProc == [created |-> FALSE, pipeline |-> "not_run", deleted |-> FALSE,
           exitCode |-> -1]
GitState == [isRepo |-> isRepo, remotes |-> remotes, userName |-> userName,
             userEmail |-> userEmail, credHelper |-> credHelper,
             credCache |-> credCache, curBranch |-> curBranch, refs |-> refs,
             index |-> index, upstream |-> upstream]

RepoShapes ==
  {[isRepo |-> FALSE, cur |-> d, tree |-> {}, born |-> FALSE] :
      d \in DefaultBranchNames}
  \cup {[isRepo |-> TRUE, cur |-> b, tree |-> {}, born |-> FALSE] :
      b \in DefaultBranchNames}
  \cup {[isRepo |-> TRUE, cur |-> b, tree |-> t, born |-> TRUE] :
      b \in {"main", "feature"}, t \in {{"old.txt"}, {"a.txt"}}}

RemoteShapes ==
  {{}, {[name |-> Origin, url |-> repo_url]},
   {[name |-> Origin, url |-> ElsewhereUrl]},
   {[name |-> OtherRemote, url |-> ElsewhereUrl]}}

\* the directory, the environment and the arguments, before anything ran
InitDir ==
  \E shape \in RepoShapes, rs \in RemoteShapes,
     n \in {NoText, ExistingName}, e \in {NoText, ExistingEmail},
     b \in Branches, t \in {"", Secret},
     s \in {InsidePath, SiblingPath, OutsidePath} :
    /\ ~shape.isRepo => rs = {}
    /\ isRepo = shape.isRepo
    /\ remotes = rs
    /\ userName = n
    /\ userEmail = e
    /\ credHelper = NoText
    /\ credCache = {}
    /\ curBranch = shape.cur
    /\ defaultBranch = shape.cur
    /\ refs = IF shape.born THEN [NoRefs EXCEPT ![shape.cur] = <<shape.tree>>]
              ELSE NoRefs
    /\ index = shape.tree
    /\ upstream = {}
    /\ remoteRefs = NoRefs
    /\ script_path = s
    /\ branch = b
    /\ token = t
    /\ pc = "idle"
    /\ runs = 0
    /\ cmds = <<>>
    /\ console = <<>>
    /\ started = <<>>
    /\ setup_success = "none"
    /\ failedAt = "none"
    /\ prevFailedAt = "none"
    /\ nfaults = 0
    /\ faultLog = {}
    /\ init0 = [isRepo |-> shape.isRepo, remotes |-> rs,
                userName |-> n, userEmail |-> e]
    /\ remote0 = NoRefs
    /\ snap3 = [valid |-> FALSE, state |-> init0]
    /\ prev3 = [valid |-> FALSE, state |-> init0]
    /\ hostIdent = Unasked

InitProc ==
  /\ requests = <<>>
  /\ response = NoResponse
  /\ repo_data = "none"
  /\ createdHere = FALSE
  /\ exitCode = -1
  /\ prevProc = NoProc

\* setup_and_push_repo is called directly on the directory
Init ==
  /\ InitDir
  /\ InitProc
  /\ mainPc = "off"
  /\ procs = 0
  /\ hosted = TRUE
  /\ git0 = NoSnapshot

\* --------------------------------------------------- setup_and_push_repo
\* lines 81-95: setup_and_push_repo is entered
Enter ==
  /\ pc' = "ensure_root"
  /\ runs' = runs + 1
  /\ cmds' = <<>>
  /\ console' = <<>>
  /\ started' = <<>>
  /\ setup_success' = "none"
  /\ prevFailedAt' = IF runs = 0 THEN "none" ELSE failedAt
  /\ failedAt' = "none"
  /\ init0' = LocalState
  /\ remote0' = remoteRefs
  /\ prev3' = snap3
  /\ snap3' = [valid |-> FALSE, state |-> LocalState]
  /\ UNCHANGED <<gitVars, argVars, envVars, nfaults, faultLog>>

\* the caller enters setup_and_push_repo (again) with the same arguments
Call ==
  /\ mainPc = "off"
  /\ pc \in {"idle", "done"}
  /\ runs < MaxRuns
  /\ Enter
  /\ UNCHANGED mainVars

\* what every stage leaves alone
StageFrame == UNCHANGED <<argVars, runs, prevFailedAt, init0, remote0, prev3,
                          mainVars>>
Frame == StageFrame /\ UNCHANGED envVars

\* variant: the result of git add is not looked at
ReturnsFalse_IgnoreAdd(stage, success) == ~success /\ stage # "stage_all"
\* variant: the test after git remote set-url is inverted
ReturnsFalse_UpdateInverted(stage, success) ==
  IF stage = "ensure_remote" THEN success ELSE ~success
\* variant: a failed commit ("nothing to commit") is let through
ReturnsFalse_IgnoreCommit(stage, success) == ~success /\ stage # "commit"

\* lines 103, 117, 144, 162, 170, 180: if not success: ... return False
ReturnsFalse(stage, success) == ~success

\* the stage prints msg and returns False
Fail(stage, msg) ==
  /\ pc' = "done"
  /\ failedAt' = stage
  /\ console' = Append(console, msg)

\* the stage prints msg and control falls through to the next stage
Pass(next, msg) ==
  /\ pc' = next
  /\ failedAt' = failedAt
  /\ console' = Append(console, msg)

\* stage 1, lines 97-108
EnsureRoot ==
  /\ pc = "ensure_root"
  /\ started' = Append(started, "ensure_root")
  /\ LET revparse == Cmd("ensure_root",
                         Git(<<W("rev-parse"), W("--is-inside-work-tree")>>),
                         isRepo)
         is_git_repo == isRepo
     IN IF is_git_repo
        THEN /\ cmds' = Append(cmds, revparse)
             /\ Pass("ensure_remote", W("Git repository already initialized"))
             /\ UNCHANGED <<gitVars, nfaults, faultLog>>
        ELSE \E fault \in FaultChoices :
             LET success == ~fault
             IN /\ cmds' = cmds \o <<revparse,
                                     Cmd("ensure_root", Git(<<W("init")>>), success)>>
                /\ nfaults' = nfaults + Cost(fault)
                /\ faultLog' = faultLog \cup Logged(fault, "ensure_root")
                /\ isRepo' = (isRepo \/ success)
                /\ curBranch' = IF success THEN defaultBranch ELSE curBranch
                /\ refs' = IF success THEN NoRefs ELSE refs
                /\ index' = IF success THEN {} ELSE index
                /\ UNCHANGED <<remotes, userName, userEmail, credHelper,
                               credCache, upstream, remoteRefs>>
                /\ IF ReturnsFalse("ensure_root", success)
                   THEN Fail("ensure_root",
                             W("Failed to initialize git repository: ") \o Stderr("init"))
                   ELSE Pass("ensure_remote", W("Git repository initialized"))
  /\ UNCHANGED <<setup_success, snap3>>
  /\ Frame

\* variant: an existing origin is not recognised
RemoteExists_Never(remote_output) == FALSE

\* line 115: "origin" in remote_output
RemoteExists(remote_output) == "origin" \in remote_output

\* stage 2, lines 110-125
EnsureRemote ==
  /\ pc = "ensure_remote"
  /\ started' = Append(started, "ensure_remote")
  /\ \E fault \in FaultChoices :
     LET addOk == ~fault /\ isRepo /\ ~HasRemote(Origin)
         add == Cmd("ensure_remote",
                    Git(<<W("remote"), W("add"), Origin, repo_url>>), addOk)
         output == IF addOk THEN NoText ELSE Stderr("remote add")
         list == Cmd("ensure_remote", Git(<<W("remote"), W("-v")>>), isRepo)
         remote_output == IF isRepo THEN RemoteVOutput(remotes) ELSE {"stderr:", "remote"}
         seturl(ok) == Cmd("ensure_remote",
                           Git(<<W("remote"), W("set-url"), Origin, repo_url>>), ok)
     IN IF addOk
        THEN /\ remotes' = remotes \cup {[name |-> Origin, url |-> repo_url]}
             /\ cmds' = Append(cmds, add)
             /\ nfaults' = nfaults
             /\ faultLog' = faultLog
             /\ Pass("ensure_identity", W("Remote added"))
        ELSE IF RemoteExists(remote_output)
        THEN \E fault2 \in FaultChoicesAfter(Cost(fault)) :
             LET success == ~fault2 /\ isRepo /\ HasRemote(Origin)
             IN /\ cmds' = cmds \o <<add, list, seturl(success)>>
                /\ nfaults' = nfaults + Cost(fault) + Cost(fault2)
                /\ faultLog' = faultLog \cup Logged(fault \/ fault2, "ensure_remote")
                /\ remotes' = IF success
                              THEN {r \in remotes : r.name # Origin}
                                   \cup {[name |-> Origin, url |-> repo_url]}
                              ELSE remotes
                /\ IF ReturnsFalse("ensure_remote", success)
                   THEN Fail("ensure_remote",
                             W("Failed to update remote: ") \o output)
                   ELSE Pass("ensure_identity", W("Remote updated"))
        ELSE /\ cmds' = cmds \o <<add, list>>
             /\ nfaults' = nfaults + Cost(fault)
             /\ faultLog' = faultLog \cup Logged(fault, "ensure_remote")
             /\ Fail("ensure_remote", W("Failed to add remote: ") \o output)
             /\ UNCHANGED remotes
  /\ UNCHANGED <<isRepo, userName, userEmail, credHelper, credCache, curBranch,
                 refs, index, upstream, remoteRefs>>
  /\ UNCHANGED <<setup_success, snap3>>
  /\ Frame

\* variant: the queried value is not looked at
Unset_Always(output) == TRUE

\* lines 129 and 133: if not <output>.strip()
Unset(output) == output = NoText

\* variant: the call of setup_git_credentials_helper is left out
AfterIdentity_SkipCredential == "stage_all"

\* lines 134-137: after stage 3 control reaches the credential setup
AfterIdentity == "inject_credential"

\* stage 3, lines 127-134
EnsureIdentity ==
  /\ pc = "ensure_identity"
  /\ started' = Append(started, "ensure_identity")
  /\ \E faultN \in FaultChoices :
     \E faultE \in FaultChoicesAfter(Cost(faultN)) :
     LET username_output == userName
         email_output == userEmail
         getN == Cmd("ensure_identity", Git(<<W("config"), W("user.name")>>),
                     userName # NoText)
         setN == Cmd("ensure_identity",
                     Git(<<W("config"), W("user.name"), PlaceholderName>>), ~faultN)
         getE == Cmd("ensure_identity", Git(<<W("config"), W("user.email")>>),
                     userEmail # NoText)
         setE == Cmd("ensure_identity",
                     Git(<<W("config"), W("user.email"), PlaceholderEmail>>), ~faultE)
     IN /\ (faultN => Unset(username_output))
        /\ (faultE => Unset(email_output))
        /\ userName' = IF Unset(username_output) /\ ~faultN
                       THEN PlaceholderName ELSE userName
        /\ userEmail' = IF Unset(email_output) /\ ~faultE
                        THEN PlaceholderEmail ELSE userEmail
        /\ cmds' = cmds \o <<getN>>
                        \o (IF Unset(username_output) THEN <<setN>> ELSE <<>>)
                        \o <<getE>>
                        \o (IF Unset(email_output) THEN <<setE>> ELSE <<>>)
        /\ nfaults' = nfaults + Cost(faultN) + Cost(faultE)
        /\ faultLog' = faultLog \cup Logged(faultN \/ faultE, "ensure_identity")
  /\ pc' = AfterIdentity
  /\ snap3' = [valid |-> TRUE,
               state |-> [LocalState EXCEPT !.userName = userName',
                                            !.userEmail = userEmail']]
  /\ UNCHANGED <<isRepo, remotes, credHelper, credCache, curBranch, refs, index,
                 upstream, remoteRefs>>
  /\ UNCHANGED <<console, setup_success, failedAt>>
  /\ Frame

\* line 75: the text written to the standard input of git credential approve
CredentialInput(tok) ==
  <<"protocol=https", "host=github.com", "username=x-access-token",
    "password=", tok>>

\* variant: the password is passed on the command line
CredentialApproveCall_PasswordArg(tok, ok) ==
  [stage |-> "inject_credential",
   argv |-> <<W("git"), W("credential"), W("approve"), <<"--password=", tok>>>>,
   stdin |-> NoText, ok |-> ok]

\* lines 69-76: the credential-approve subprocess and what it is fed
CredentialApproveCall(tok, ok) ==
  [stage |-> "inject_credential",
   argv |-> Git(<<W("credential"), W("approve")>>),
   stdin |-> CredentialInput(tok), ok |-> ok]

\* how the approve subprocess can end: exit status 0 (credential cached),
\* exit status not 0 (nothing cached), SubprocessError raised
ApproveOutcomes == {"ok", "nonzero", "raise"}

\* lines 76-79: communicate() returns -> True; SubprocessError -> False
HelperResult(outcome) == IF outcome = "raise" THEN "false" ELSE "true"

\* variant: a failed credential setup ends the function
AfterCredential_AbortOnFailure(result) ==
  IF result = "false" THEN "done" ELSE "stage_all"

\* lines 139-143: after the warning (if any) control reaches git add
AfterCredential(result) == "stage_all"

\* stage 4, lines 136-140, with setup_git_credentials_helper, lines 60-79
InjectCredential ==
  /\ pc = "inject_credential"
  /\ started' = Append(started, "inject_credential")
  /\ IF token = ""
     THEN /\ setup_success' = "skipped"
          /\ UNCHANGED <<credHelper, credCache, cmds, console, nfaults, faultLog>>
     ELSE \E fault \in FaultChoices :
          \E outcome \in (IF fault \/ nfaults >= MaxFaults THEN {"ok"}
                          ELSE ApproveOutcomes) :
          LET success == ~fault
              helper == Cmd("inject_credential",
                            Git(<<W("config"), W("--local"),
                                  W("credential.helper"), W("cache")>>), success)
          IN /\ nfaults' = nfaults + Cost(fault) + Cost(outcome # "ok")
             /\ faultLog' = faultLog
                            \cup Logged(fault \/ outcome # "ok", "inject_credential")
             /\ IF ~success
                THEN /\ cmds' = Append(cmds, helper)
                     /\ setup_success' = "false"
                     /\ UNCHANGED <<credHelper, credCache>>
                ELSE /\ cmds' = cmds \o <<helper,
                                CredentialApproveCall(token, outcome = "ok")>>
                     /\ credHelper' = W("cache")
                     /\ credCache' = IF outcome = "ok"
                                     THEN credCache \cup {token} ELSE credCache
                     /\ setup_success' = HelperResult(outcome)
             /\ console' = IF setup_success' = "false"
                           THEN Append(console,
                                  W("Warning: Failed to setup credentials helper. You may be prompted for credentials."))
                           ELSE console
  /\ pc' = AfterCredential(setup_success')
  /\ failedAt' = IF pc' = "done" THEN "inject_credential" ELSE failedAt
  /\ UNCHANGED <<isRepo, remotes, userName, userEmail, curBranch, refs, index,
                 upstream, remoteRefs>>
  /\ UNCHANGED snap3
  /\ Frame

\* stage 5, lines 142-147
StageAll ==
  /\ pc = "stage_all"
  /\ started' = Append(started, "stage_all")
  /\ \E fault \in FaultChoices :
     LET success == ~fault
     IN /\ cmds' = Append(cmds, Cmd("stage_all", Git(<<W("add"), W(".")>>), success))
        /\ nfaults' = nfaults + Cost(fault)
        /\ faultLog' = faultLog \cup Logged(fault, "stage_all")
        /\ index' = IF success THEN WorkFiles ELSE index
        /\ IF ReturnsFalse("stage_all", success)
           THEN Fail("stage_all", W("Failed to add files: ") \o Stderr("add"))
           ELSE Pass("self_exclusion", W("Files added to staging area"))
  /\ UNCHANGED <<isRepo, remotes, userName, userEmail, credHelper, credCache,
                 curBranch, refs, upstream, remoteRefs>>
  /\ UNCHANGED <<setup_success, snap3>>
  /\ Frame

\* line 151: script_path.startswith(abs_directory), a prefix test on the text
StartsWith(text, prefix) == IsPrefix(prefix, text)
\* lines 150-151 (sys.argv[0] names an existing file)
ScriptDetected == StartsWith(script_path, abs_directory)
\* line 153: os.path.relpath(script_path, abs_directory)
rel_script_path == IF script_path = InsidePath THEN W(ScriptFile)
                   ELSE W("../project-tools/app.py")

\* git reset HEAD <path>: the index entry of path becomes the entry of HEAD
ResetPath(idx, path) == IF path \in HeadTree THEN idx \cup {path}
                        ELSE idx \ {path}

\* stage 6, lines 149-155
SelfExclusion ==
  /\ pc = "self_exclusion"
  /\ started' = Append(started, "self_exclusion")
  /\ IF ScriptDetected
     THEN \E fault \in FaultChoices :
          LET ok == ~fault /\ HeadBorn /\ ScriptUnderDir
          IN /\ cmds' = Append(cmds, Cmd("self_exclusion",
                           Git(<<W("reset"), W("HEAD"), rel_script_path>>), ok))
             /\ nfaults' = nfaults + Cost(fault)
             /\ faultLog' = faultLog \cup Logged(fault, "self_exclusion")
             /\ index' = IF ok THEN ResetPath(index, ScriptFile) ELSE index
             /\ console' = Append(console,
                  W("Detected script in repository. Excluding it from commit to prevent token exposure."))
     ELSE UNCHANGED <<cmds, nfaults, faultLog, index, console>>
  /\ pc' = "commit"
  /\ UNCHANGED <<isRepo, remotes, userName, userEmail, credHelper, credCache,
                 curBranch, refs, upstream, remoteRefs>>
  /\ UNCHANGED <<setup_success, failedAt, snap3>>
  /\ Frame

\* the hosts git can run on: whether it can derive a name (from the account)
\* and an e-mail address (from the host name) when none is configured
Hosts == [asked : {TRUE}, name : BOOLEAN, email : BOOLEAN]
IdentityUnknown == W("Author identity unknown")

\* git commit needs a committer: the configured user.name and user.email,
\* or what the host lets git derive for the one that is not configured
IdentityKnown(name, email, host) ==
  /\ (name = NoText => host.name)
  /\ (email = NoText => host.email)

\* stage 7, lines 157-165
Commit ==
  /\ pc = "commit"
  /\ started' = Append(started, "commit")
  /\ \E fault \in FaultChoices,
        host \in IF userName # NoText /\ userEmail # NoText THEN {hostIdent}
                 ELSE IF hostIdent.asked THEN {hostIdent} ELSE Hosts :
     LET asked == ~fault /\ (userName = NoText \/ userEmail = NoText)
         known == asked => IdentityKnown(userName, userEmail, host)
         success == ~fault /\ known /\ index # HeadTree
         output == IF fault THEN Stderr("commit")
                   ELSE IF ~known THEN IdentityUnknown
                   ELSE NoText
     IN /\ hostIdent' = IF asked THEN host ELSE hostIdent
        /\ cmds' = Append(cmds, Cmd("commit",
                      Git(<<W("commit"), W("-m"),
                            W("Initial commit from auto-upload script")>>), success))
        /\ nfaults' = nfaults + Cost(fault)
        /\ faultLog' = faultLog \cup Logged(fault, "commit")
        /\ refs' = IF success THEN [refs EXCEPT ![curBranch] = Append(@, index)]
                   ELSE refs
        /\ IF ReturnsFalse("commit", success)
           THEN Fail("commit", W("Failed to commit: ") \o output)
           ELSE Pass("branch_selection", W("Changes committed"))
  /\ UNCHANGED <<isRepo, remotes, userName, userEmail, credHelper, credCache,
                 curBranch, index, upstream, remoteRefs>>
  /\ UNCHANGED <<setup_success, snap3>>
  /\ StageFrame

\* variant: only main is taken for a default branch name
NeedsNewBranch_OnlyMain(b) == b # "main"

\* line 168: branch != "main" and branch != "master"
NeedsNewBranch(b) == b # "main" /\ b # "master"

\* stage 8, lines 167-173
BranchSelection ==
  /\ pc = "branch_selection"
  /\ started' = Append(started, "branch_selection")
  /\ IF NeedsNewBranch(branch)
     THEN \E fault \in FaultChoices :
          LET success == ~fault /\ refs[branch] = <<>>
          IN /\ cmds' = Append(cmds, Cmd("branch_selection",
                           Git(<<W("checkout"), W("-b"), W(branch)>>), success))
             /\ nfaults' = nfaults + Cost(fault)
             /\ faultLog' = faultLog \cup Logged(fault, "branch_selection")
             /\ refs' = IF success THEN [refs EXCEPT ![branch] = refs[curBranch]]
                        ELSE refs
             /\ curBranch' = IF success THEN branch ELSE curBranch
             /\ IF ReturnsFalse("branch_selection", success)
                THEN Fail("branch_selection",
                          W("Failed to create branch: ") \o Stderr("checkout"))
                ELSE Pass("push", <<"Created and switched to branch ", branch>>)
     ELSE /\ pc' = "push"
          /\ UNCHANGED <<cmds, nfaults, faultLog, refs, curBranch, console, failedAt>>
  /\ UNCHANGED <<isRepo, remotes, userName, userEmail, credHelper, credCache,
                 index, upstream, remoteRefs>>
  /\ UNCHANGED <<setup_success, snap3>>
  /\ Frame

\* lines 176-179: the branch named in git push -u origin <branch>
PushedBranch(b) == b

\* stage 9, lines 175-185
Push ==
  /\ pc = "push"
  /\ started' = Append(started, "push")
  /\ \E fault \in FaultChoices :
     LET src == PushedBranch(branch)
         success == /\ ~fault
                    /\ refs[src] # <<>>
                    /\ IsPrefix(remoteRefs[src], refs[src])
     IN /\ cmds' = Append(cmds, Cmd("push",
                      Git(<<W("push"), W("-u"), Origin, W(src)>>), success))
        /\ nfaults' = nfaults + Cost(fault)
        /\ faultLog' = faultLog \cup Logged(fault, "push")
        /\ remoteRefs' = IF success THEN [remoteRefs EXCEPT ![src] = refs[src]]
                         ELSE remoteRefs
        /\ upstream' = IF success THEN upstream \cup {src} ELSE upstream
        /\ IF ReturnsFalse("push", success)
           THEN Fail("push", W("Failed to push to GitHub: ") \o Stderr("push"))
           ELSE Pass("done", <<"Successfully pushed to GitHub branch ", branch>>)
  /\ UNCHANGED <<isRepo, remotes, userName, userEmail, credHelper, credCache,
                 curBranch, refs, index>>
  /\ UNCHANGED <<setup_success, snap3>>
  /\ Frame

Next ==
  \/ Call
  \/ EnsureRoot
  \/ EnsureRemote
  \/ EnsureIdentity
  \/ InjectCredential
  \/ StageAll
  \/ SelfExclusion
  \/ Commit
  \/ BranchSelection
  \/ Push

Spec == Init /\ [][Next]_vars

\* ---------------------------------------------------------------- main
ApiUrl == "https://api.github.com/user/repos"

\* lines 23-35: the one request create_github_repo sends
CreateRequest(name) ==
  [method |-> "POST", url |-> ApiUrl, name |-> name, auto_init |-> FALSE]

\* the request can fail whatever is asked: no answer at all (requests.post
\* raises), or a server error whose body is JSON or not
Outage == {[status |-> 0, body |-> "connection_error"],
           [status |-> 500, body |-> "error_message"],
           [status |-> 500, body |-> "not_json"]}

\* what the provider can answer to a create request: 401 for a token it does
\* not accept, 422 for a name that is taken, otherwise 201 (the repository is
\* created) or 200; an error body is JSON with or without a message, or no
\* JSON at all
ProviderAnswers(tok, exists) ==
  Outage \cup
  IF tok # Secret
  THEN {[status |-> 401, body |-> "error_message"],
        [status |-> 401, body |-> "error_no_message"],
        [status |-> 401, body |-> "not_json"]}
  ELSE IF exists
  THEN {[status |-> 422, body |-> "error_message"],
        [status |-> 422, body |-> "error_no_message"],
        [status |-> 422, body |-> "not_json"]}
  ELSE {[status |-> 201, body |-> "repo"],
        [status |-> 201, body |-> "repo_no_clone_url"],
        [status |-> 201, body |-> "empty_object"],
        [status |-> 201, body |-> "not_json"],
        [status |-> 200, body |-> "repo"],
        [status |-> 200, body |-> "not_json"]}

\* line 37: response.status_code == 201
ReturnsData(status) == status = 201

\* create_github_repo, lines 10-43.  requests.post raising, and
\* response.json() raising on a body that is not JSON (line 39 after a 201,
\* line 42 after any other status), end the process with a traceback and
\* exit code 1.
CreateGithubRepo ==
  /\ mainPc = "start"
  /\ \E r \in ProviderAnswers(token, hosted) :
     LET raised == \/ r.body = "connection_error"
                   \/ r.body = "not_json"
         returned == IF ReturnsData(r.status) THEN r.body ELSE "none"
     IN /\ requests' = Append(requests, CreateRequest(repo_name))
        /\ response' = r
        /\ hosted' = (hosted \/ r.status = 201)
        /\ createdHere' = (r.status = 201)
        /\ repo_data' = IF raised THEN "raised" ELSE returned
        /\ mainPc' = IF raised THEN "exit" ELSE "check"
        /\ exitCode' = IF raised THEN 1 ELSE exitCode
  /\ UNCHANGED <<gitVars, argVars, envVars, runVars, procs, git0, prevProc>>

\* line 239: not repo_data
NoData(data) == data \in {"none", "empty_object"}

\* variant: a response without clone_url is given a URL made from the name
CloneUrl_Guessed(data) == repo_url

\* line 243: repo_data.get("clone_url")
CloneUrl(data) == IF data = "repo" THEN repo_url ELSE NoText

\* main, lines 237-249: exit with code 1 without repository data or without
\* clone URL, otherwise enter setup_and_push_repo
MainCheck ==
  /\ mainPc = "check"
  /\ IF NoData(repo_data) \/ CloneUrl(repo_data) = NoText
     THEN /\ mainPc' = "exit"
          /\ exitCode' = 1
          /\ UNCHANGED <<gitVars, argVars, envVars, runVars>>
     ELSE /\ mainPc' = "publish"
          /\ exitCode' = exitCode
          /\ Enter
  /\ UNCHANGED <<procs, hosted, requests, response, repo_data, createdHere,
                 git0, prevProc>>

\* variant: the process ends normally whatever the publish returned
ExitCodeOf_AlwaysZero(success) == 0

\* lines 250-255: normal end on success, sys.exit(1) otherwise
ExitCodeOf(success) == IF success THEN 0 ELSE 1

\* lines 253-255: a failed publish sends nothing to the provider
FailureRequests(name) == <<>>

\* main, lines 249-255: setup_and_push_repo has returned
MainFinish ==
  /\ mainPc = "publish"
  /\ pc = "done"
  /\ LET success == failedAt = "none"
         sent == IF success THEN <<>> ELSE FailureRequests(repo_name)
     IN /\ exitCode' = ExitCodeOf(success)
        /\ requests' = requests \o sent
        /\ hosted' = (hosted /\ \A i \in DOMAIN sent : sent[i].method # "DELETE")
  /\ mainPc' = "exit"
  /\ UNCHANGED <<gitVars, argVars, envVars, runVars, procs, response, repo_data,
                 createdHere, git0, prevProc>>

\* the operator runs the tool again: same directory, name, branch and token
Rerun ==
  /\ mainPc = "exit"
  /\ procs < MaxProcs
  /\ procs' = procs + 1
  /\ prevProc' = [created |-> createdHere,
                  pipeline |-> IF pc # "done" THEN "not_run"
                               ELSE IF failedAt = "none" THEN "ok"
                               ELSE failedAt,
                  deleted |-> \E i \in DOMAIN requests :
                                 requests[i].method = "DELETE",
                  exitCode |-> exitCode]
  /\ mainPc' = "start"
  /\ requests' = <<>>
  /\ response' = NoResponse
  /\ repo_data' = "none"
  /\ createdHere' = FALSE
  /\ exitCode' = -1
  /\ git0' = [valid |-> TRUE, state |-> GitState]
  /\ pc' = "idle"
  /\ cmds' = <<>>
  /\ console' = <<>>
  /\ started' = <<>>
  /\ setup_success' = "none"
  /\ failedAt' = "none"
  /\ UNCHANGED <<gitVars, argVars, envVars, hosted, runs, prevFailedAt, nfaults, faultLog,
                 init0, remote0, snap3, prev3>>

\* the tool is started on the directory; the name may be taken already
InitMain ==
  /\ InitDir
  /\ InitProc
  /\ mainPc = "start"
  /\ procs = 1
  /\ hosted \in BOOLEAN
  /\ git0 = [valid |-> TRUE, state |-> GitState]

NextMain ==
  \/ CreateGithubRepo
  \/ MainCheck
  \/ EnsureRoot
  \/ EnsureRemote
  \/ EnsureIdentity
  \/ InjectCredential
  \/ StageAll
  \/ SelfExclusion
  \/ Commit
  \/ BranchSelection
  \/ Push
  \/ MainFinish
  \/ Rerun

SpecMain == InitMain /\ [][NextMain]_vars

\* =================================================================== claims
Ran(stage) == \E i \in DOMAIN started : started[i] = stage
CmdsOf(stage) == {i \in DOMAIN cmds : cmds[i].stage = stage}
Verb(c, k, word) == Len(c.argv) >= k /\ c.argv[k] = W(word)
AllStages == {StageOrder[i] : i \in DOMAIN StageOrder}
Stages123 == {"ensure_root", "ensure_remote", "ensure_identity"}
LastCmd == cmds[Len(cmds)]

\* the git command that sets origin to the given URL ran and succeeded
OriginSetHere ==
  \E i \in CmdsOf("ensure_remote") :
    /\ cmds[i].ok
    /\ Verb(cmds[i], 2, "remote")
    /\ Verb(cmds[i], 3, "add") \/ Verb(cmds[i], 3, "set-url")
    /\ cmds[i].argv[4] = Origin /\ cmds[i].argv[5] = repo_url
StagedHere == \E i \in CmdsOf("stage_all") : cmds[i].ok /\ Verb(cmds[i], 2, "add")
CommittedHere == \E i \in CmdsOf("commit") : cmds[i].ok /\ Verb(cmds[i], 2, "commit")
PushIssued == CmdsOf("push") # {}

\* a stage that ran did what it is for: its state-changing commands succeeded
\* (the exit status of a query is the answer to the query, not a failure)
StageSucceeded(s) ==
  CASE s = "ensure_root" ->
         \E i \in CmdsOf(s) : cmds[i].ok
    [] s = "ensure_remote" -> OriginSetHere
    [] s = "ensure_identity" ->
         \A i \in CmdsOf(s) : Len(cmds[i].argv) = 4 => cmds[i].ok
    [] s = "inject_credential" -> setup_success # "false"
    [] s = "push" -> \A i \in CmdsOf(s) : cmds[i].ok
    [] OTHER -> \A i \in CmdsOf(s) : cmds[i].ok

PushPreconditions ==
  PushIssued => /\ isRepo
                /\ OriginUrl = repo_url
                /\ OriginSetHere
                /\ StagedHere
                /\ CommittedHere

\* C1 as stated: the stages run in the fixed order, every stage is started
\* only after the stage before it succeeded, and the push is issued only with
\* a working tree, origin set to the given URL, staging and commit succeeded.
C1_Original ==
  /\ IsPrefix(started, StageOrder)
  /\ \A k \in 2..Len(started) : StageSucceeded(started[k - 1])
  /\ PushPreconditions

\* the stages whose failure makes setup_and_push_repo return False
FatalStages == {"ensure_root", "ensure_remote", "stage_all", "commit",
                "branch_selection", "push"}

\* C1 (amended): the stages run in the fixed order; a stage is started only if
\* no earlier stage returned failure, which ensure-root, ensure-remote,
\* stage-all, commit and branch-selection do when they fail, while
\* ensure-identity, inject-credential and self-exclusion never do; the push
\* is issued only with a working tree, origin set to the given URL in this
\* invocation, and staging and commit succeeded in this invocation.
C1_OrderedPipeline ==
  /\ IsPrefix(started, StageOrder)
  /\ \A k \in 2..Len(started) :
       started[k - 1] \in FatalStages => StageSucceeded(started[k - 1])
  /\ failedAt \in FatalStages \cup {"none"}
  /\ (failedAt # "none" => /\ pc = "done"
                           /\ started[Len(started)] = failedAt
                           /\ ~StageSucceeded(failedAt))
  /\ PushPreconditions

\* C1 witness: a push issued after a failed credential registration
C1_Witness ==
  /\ PushIssued
  /\ setup_success = "false"
  /\ failedAt = "none"
  /\ pc = "done"

\* C2 as stated: when one of the named stages fails, no later stage runs, no
\* push is issued and the function returns failure.
C2Stages == {"ensure_root", "ensure_remote", "ensure_identity", "stage_all",
             "self_exclusion", "commit", "branch_selection"}
C2_Original ==
  \A s \in C2Stages :
    (Ran(s) /\ ~StageSucceeded(s)) =>
       /\ pc = "done"
       /\ failedAt = s
       /\ started[Len(started)] = s
       /\ ~PushIssued

TokenIn(text) == token # "" /\ Mentions(text, token)

\* C3: the token is in no argument list, no configured remote URL, no
\* configuration value and no console message; the only subprocess that is
\* handed it is git credential approve, on its standard input.
C3_TokenConfined ==
  /\ \A i \in DOMAIN cmds :
       /\ \A j \in DOMAIN cmds[i].argv : ~TokenIn(cmds[i].argv[j])
       /\ TokenIn(cmds[i].stdin) =>
            cmds[i].argv = <<W("git"), W("credential"), W("approve")>>
  /\ \A r \in remotes : ~TokenIn(r.url) /\ ~TokenIn(r.name)
  /\ ~TokenIn(credHelper) /\ ~TokenIn(userName) /\ ~TokenIn(userEmail)
  /\ \A i \in DOMAIN console : ~TokenIn(console[i])

\* C3 witness: a successful publish in which the token was fed to approve
C3_Witness ==
  /\ pc = "done" /\ failedAt = "none"
  /\ \E i \in DOMAIN cmds : TokenIn(cmds[i].stdin) /\ cmds[i].ok
  /\ token \in credCache

\* C4 as stated: after an invocation in which only the push failed, a second
\* invocation (same arguments, no file changes, no new external fault) passes
\* stages 1-8 and issues the push again.
C4_Original ==
  (runs >= 2 /\ prevFailedAt = "push" /\ FaultFree(runs, AllStages)
     /\ pc = "done") =>
       /\ failedAt \in {"none", "push"}
       /\ PushIssued

\* C4 (amended): after an invocation in which only the push failed, a second
\* invocation with the same arguments, no file changes and no command failing
\* for an external reason passes stages 1-6 and returns failure at the commit
\* stage, because nothing new is staged; it creates no branch and issues no
\* push.
C4_RetryStopsAtCommit ==
  (runs >= 2 /\ prevFailedAt = "push" /\ FaultFree(runs, AllStages)) =>
       /\ ~Ran("branch_selection")
       /\ ~PushIssued
       /\ failedAt \in {"none", "commit"}
       /\ (pc = "done" => /\ failedAt = "commit"
                          /\ started = SubSeq(StageOrder, 1, 7))

\* C4 witness: the retry of a failed push ended at the commit stage
C4_Witness ==
  /\ runs = 2 /\ prevFailedAt = "push" /\ FaultFree(runs, AllStages)
  /\ pc = "done" /\ failedAt = "commit"
  /\ ~LastCmd.ok /\ Verb(LastCmd, 2, "commit")

\* C5: when no command of stages 1-3 fails for an external reason, a second
\* run of stages 1-3 does not fail and leaves repository existence, remotes,
\* user.name and user.email as the first run left them.
C5_Stages123Idempotent ==
  (runs >= 2 /\ prev3.valid
     /\ FaultFree(runs, Stages123) /\ FaultFree(runs - 1, Stages123)) =>
       /\ failedAt \notin Stages123
       /\ (snap3.valid => snap3.state = prev3.state)

\* C5 witness: stages 1-3 ran twice, the second time updating origin in place
C5_Witness ==
  /\ runs = 2 /\ prev3.valid /\ snap3.valid
  /\ FaultFree(1, Stages123) /\ FaultFree(2, Stages123)
  /\ init0.isRepo
  /\ snap3.state.userName = PlaceholderName
  /\ [name |-> Origin, url |-> repo_url] \in snap3.state.remotes
  /\ \E i \in CmdsOf("ensure_remote") : Verb(cmds[i], 3, "set-url") /\ cmds[i].ok

HadOrigin == \E r \in init0.remotes : r.name = Origin

\* C6: an origin that exists when stage 2 runs is rewritten to the given URL
\* and the pipeline goes on to stage 3; stage 2 returns failure only when the
\* add failed and there is no remote named origin, or the set-url failed.
C6_OriginRewritten ==
  /\ (Ran("ensure_remote") /\ failedAt # "ensure_remote") =>
        /\ OriginUrl = repo_url
        /\ pc = "ensure_identity" \/ Ran("ensure_identity")
  /\ (failedAt = "ensure_remote") =>
        /\ \E i \in CmdsOf("ensure_remote") : Verb(cmds[i], 3, "add") /\ ~cmds[i].ok
        /\ \/ ~HadOrigin
           \/ Verb(LastCmd, 3, "set-url") /\ ~LastCmd.ok
  /\ (failedAt = "ensure_remote" /\ HadOrigin) =>
        <<runs, "ensure_remote">> \in faultLog

\* C6 witness: origin pointed elsewhere and now points at the given URL
C6_Witness ==
  /\ [name |-> Origin, url |-> ElsewhereUrl] \in init0.remotes
  /\ OriginUrl = repo_url
  /\ Ran("ensure_identity")
  /\ Cardinality({r \in remotes : r.name = Origin}) = 1

SetCmds(key) ==
  {i \in CmdsOf("ensure_identity") :
     Len(cmds[i].argv) = 4 /\ Verb(cmds[i], 3, key)}

\* C7: each identity key on its own: a key that was set keeps its value
\* through the whole pipeline and no command writes it; for a key that was
\* unset, stage 3 issues the command writing the fixed placeholder, and the
\* key holds the placeholder when that command succeeded.
C7_IdentityKept ==
  /\ init0.userName # NoText =>
        userName = init0.userName /\ SetCmds("user.name") = {}
  /\ init0.userEmail # NoText =>
        userEmail = init0.userEmail /\ SetCmds("user.email") = {}
  /\ (Ran("ensure_identity") /\ init0.userName = NoText) =>
        /\ \E i \in SetCmds("user.name") :
             /\ cmds[i].argv[4] = W("GitHub Auto Uploader")
             /\ userName = IF cmds[i].ok THEN W("GitHub Auto Uploader") ELSE NoText
        /\ Cardinality(SetCmds("user.name")) = 1
  /\ (Ran("ensure_identity") /\ init0.userEmail = NoText) =>
        /\ \E i \in SetCmds("user.email") :
             /\ cmds[i].argv[4] = W("auto-uploader@example.com")
             /\ userEmail = IF cmds[i].ok THEN W("auto-uploader@example.com")
                            ELSE NoText
        /\ Cardinality(SetCmds("user.email")) = 1

\* C7 witness: the name was set and is kept, the e-mail was unset and is now
\* the placeholder, at the end of a whole pipeline
C7_Witness ==
  /\ pc = "done" /\ failedAt = "none"
  /\ init0.userName = ExistingName /\ userName = ExistingName
  /\ init0.userEmail = NoText /\ userEmail = PlaceholderEmail

\* C8 as stated: when the invoking script lies under the published directory,
\* the commit the pipeline creates does not contain the script.
C8_Original ==
  (ScriptUnderDir /\ CommittedHere) => ScriptFile \notin HeadTree

PushCmdBranch == cmds[CHOOSE i \in CmdsOf("push") : TRUE].argv[5]

\* C9 as stated: the branch named in the push command is the branch checked
\* out at the push, and publishing a directory that is not yet a repository
\* with branch main succeeds with exactly one commit on the remote branch.
C9_Original ==
  /\ PushIssued => PushCmdBranch = W(curBranch)
  /\ (runs = 1 /\ ~init0.isRepo /\ branch = "main" /\ pc = "done"
        /\ faultLog = {}) =>
          /\ failedAt = "none"
          /\ Len(remoteRefs["main"]) = 1

Checkouts == {i \in DOMAIN cmds : Verb(cmds[i], 2, "checkout")}

\* C10: for a branch other than main and master the push is preceded by a
\* successful commit and then a successful checkout -b of that branch, the
\* only push names that branch with -u, and main and master of the remote
\* stay as they were; for main and master no checkout -b is issued.
C10_BranchSelection ==
  /\ branch \notin {"main", "master"} =>
       /\ PushIssued =>
            /\ \E i \in CmdsOf("commit"), j \in Checkouts :
                 /\ i < j
                 /\ cmds[i].ok /\ cmds[j].ok
                 /\ cmds[j].argv = <<W("git"), W("checkout"), W("-b"), W(branch)>>
            /\ curBranch = branch
            /\ \A k \in CmdsOf("push") :
                 cmds[k].argv = <<W("git"), W("push"), W("-u"), Origin, W(branch)>>
            /\ Cardinality(CmdsOf("push")) = 1
       /\ \A d \in {"main", "master"} : remoteRefs[d] = remote0[d]
       /\ (pc = "done" /\ failedAt = "none") =>
            /\ remoteRefs[branch] = refs[branch]
            /\ branch \in upstream
  /\ branch \in {"main", "master"} => Checkouts = {}

\* C10 witness: a finished publish of branch feature
C10_Witness ==
  /\ branch = "feature"
  /\ pc = "done" /\ failedAt = "none"
  /\ Len(remoteRefs["feature"]) >= 1
  /\ "feature" \in upstream
  /\ remoteRefs["main"] = <<>> /\ remoteRefs["master"] = <<>>

HelperCmds == {i \in CmdsOf("inject_credential") : Verb(cmds[i], 3, "--local")}
ApproveCmds == {i \in CmdsOf("inject_credential") : Verb(cmds[i], 2, "credential")}
BetweenStages == {"stage_all", "self_exclusion", "commit", "branch_selection"}

\* C11 as stated: once the credential has been handed to the credential
\* cache, no staging, self-exclusion, commit or branch-creation stage runs
\* before the push.
C11_Original ==
  ApproveCmds # {} => \A s \in BetweenStages : ~Ran(s)

\* C11 (amended): the credential is registered before the push but not
\* immediately before it: registration is the fourth stage, it runs whenever
\* a token is given, and in every execution that issues the push the staging,
\* self-exclusion, commit and branch-selection stages all run between the
\* registration and the push command.
C11_RegisteredAtStageFour ==
  /\ (token # "" /\ (pc = "stage_all" \/ Ran("stage_all"))) =>
        /\ HelperCmds # {}
        /\ \A i \in HelperCmds \cup ApproveCmds :
             \A j \in DOMAIN cmds :
               cmds[j].stage \in BetweenStages \cup {"push"} => i < j
  /\ (PushIssued /\ token # "") =>
        /\ started = StageOrder
        /\ \E i \in HelperCmds, j \in CmdsOf("stage_all"),
              k \in CmdsOf("commit"), p \in CmdsOf("push") :
             i < j /\ j < k /\ k < p

\* C11 witness: the push issued with the credential cached four stages before
C11_Witness ==
  /\ PushIssued
  /\ ApproveCmds # {}
  /\ token \in credCache
  /\ \E i \in ApproveCmds, j \in CmdsOf("commit") : i < j /\ cmds[j].ok

LaterFatal == {"stage_all", "commit", "branch_selection", "push"}

\* C12: a failed credential registration never makes the function return:
\* staging follows it, as it follows a skipped registration when no token is
\* given, and the result of the function is success exactly when the push
\* succeeded, failure exactly at one of the later stages whose command failed.
C12_CredentialNonFatal ==
  /\ failedAt # "inject_credential"
  /\ Ran("inject_credential") =>
        /\ pc = "stage_all" \/ Ran("stage_all")
        /\ setup_success \in {"true", "false", "skipped"}
        /\ (token = "") <=> (setup_success = "skipped")
        /\ token = "" => CmdsOf("inject_credential") = {}
        /\ pc = "done" =>
             /\ failedAt \in LaterFatal \cup {"none"}
             /\ (failedAt = "none") <=>
                  (PushIssued /\ \A i \in CmdsOf("push") : cmds[i].ok)
             /\ failedAt # "none" =>
                  /\ ~LastCmd.ok
                  /\ LastCmd.stage = failedAt

\* C12 witness: the warning was printed and the publish still succeeded with
\* nothing in the credential cache
C12_Witness ==
  /\ setup_success = "false"
  /\ token # "" /\ token \notin credCache
  /\ pc = "done" /\ failedAt = "none"
  /\ remoteRefs[branch] # <<>>
  /\ \E i \in DOMAIN console : Mentions(console[i],
       "Warning: Failed to setup credentials helper. You may be prompted for credentials.")

CommitFailed == \E i \in CmdsOf("commit") : ~cmds[i].ok

\* C13: a failed commit, nothing staged included, makes the function return
\* failure at the commit stage with no branch created and no push issued.
C13_CommitFailureFatal ==
  CommitFailed =>
    /\ pc = "done"
    /\ failedAt = "commit"
    /\ started[Len(started)] = "commit"
    /\ Checkouts = {}
    /\ ~PushIssued

\* C13 witness: nothing was staged beyond HEAD, no fault, and the commit failed
C13_Witness ==
  /\ CommitFailed
  /\ faultLog = {}
  /\ index = HeadTree
  /\ HeadBorn
  /\ failedAt = "commit"

\* the command whose failure made the function return
FailingCmd == cmds[CHOOSE i \in DOMAIN cmds :
                     ~cmds[i].ok /\ \A j \in DOMAIN cmds : j > i => cmds[j].ok]
\* the error output of a failed command
ErrOf(c) ==
  IF Verb(c, 2, "remote") THEN Stderr(<<"remote add", "remote set-url">>[
                                        IF Verb(c, 3, "add") THEN 1 ELSE 2])
  ELSE IF Verb(c, 2, "init") THEN Stderr("init")
  ELSE IF Verb(c, 2, "add") THEN Stderr("add")
  ELSE IF Verb(c, 2, "commit")
       THEN (IF <<runs, "commit">> \in faultLog THEN Stderr("commit") ELSE NoText)
  ELSE IF Verb(c, 2, "checkout") THEN Stderr("checkout")
  ELSE Stderr("push")
LastMessage == console[Len(console)]
Diagnostic(msg) == SubSeq(msg, 2, Len(msg))

\* C17 as stated: when the function returns failure, the diagnostic printed is
\* the error output of the command whose failure caused the return.
C17_Original ==
  failedAt # "none" => Diagnostic(LastMessage) = ErrOf(FailingCmd)

\* C18 as stated: setup_git_credentials_helper returns success only if the
\* credential was registered, so not when the helper configuration or the
\* approve subprocess failed.
C18_Original ==
  setup_success = "true" =>
    /\ token \in credCache
    /\ \A i \in CmdsOf("inject_credential") : cmds[i].ok

\* ---- claims about main and create_github_repo (checked under SpecMain)
Exited == mainPc = "exit"
CreationSucceeded == response.status = 201 /\ response.body = "repo"
DeleteSent == \E i \in DOMAIN requests : requests[i].method = "DELETE"

\* C14: when repository creation does not succeed (a status other than 201,
\* or a 201 response without a clone endpoint) the process exits with code 1,
\* no local VCS command is executed in that run and the VCS state of the
\* directory is what it was when the run started.
C14_CreationFailureExits ==
  (Exited /\ ~CreationSucceeded) =>
    /\ exitCode = 1
    /\ cmds = <<>>
    /\ started = <<>>
    /\ git0.state = GitState

\* a run on an existing VCS directory got 201 without a clone endpoint and ended
C14_Witness ==
  /\ Exited
  /\ response = [status |-> 201, body |-> "repo_no_clone_url"]
  /\ isRepo
  /\ exitCode = 1

\* C15: the exit code is 0 exactly when repository creation succeeded and
\* setup_and_push_repo returned success, and 1 in every other case.
C15_ExitCode ==
  Exited =>
    /\ exitCode \in {0, 1}
    /\ exitCode = 0 <=>
         (CreationSucceeded /\ pc = "done" /\ failedAt = "none")

\* a run created the repository, the pipeline failed at the push, exit code 1
C15_Witness ==
  /\ Exited
  /\ CreationSucceeded
  /\ pc = "done"
  /\ failedAt = "push"
  /\ exitCode = 1

\* C16: a call of create_github_repo sends exactly one request, a POST that
\* creates the repository with auto_init false; it returns the repository
\* data if and only if the status is 201, and for every other status it
\* returns failure and sends nothing more, so a run creates at most one
\* repository and none when the call fails.
C16_Original ==
  (mainPc \in {"check", "publish", "exit"}
     /\ response.body # "connection_error") =>
    /\ Len(requests) = 1
    /\ requests[1].method = "POST"
    /\ requests[1].url = ApiUrl
    /\ requests[1].name = repo_name
    /\ requests[1].auto_init = FALSE
    /\ (repo_data \notin {"none", "raised"}) <=> (response.status = 201)
    /\ (response.status # 201) => repo_data = "none"
    /\ (repo_data \in {"none", "raised"}) => ~createdHere

\* C19: after a run that created the repository and whose publish pipeline
\* failed, the remote repository still exists and no delete request was sent,
\* and a second run of the tool with the same name reaches the publish stages.
C19_Original ==
  (Exited /\ procs >= 2 /\ prevProc.created
     /\ prevProc.pipeline \notin {"not_run", "ok"}) =>
    /\ hosted
    /\ ~prevProc.deleted
    /\ ~DeleteSent
    /\ started # <<>>
====
